---------------------------- MODULE Spec2Model ----------------------------
(***************************************************************************)
(* A model of the first-fit allocator of src/mymalloc.c.                   *)
(*                                                                         *)
(* The heap is a pointer machine: mem maps the address of every block      *)
(* header of the managed region to the four fields of struct Block, head   *)
(* and tail are the two globals, brk is the program break.  Addresses and  *)
(* sizes are byte counts.  The build is the one the repository's tests     *)
(* are written for (bigdriver.c expects tiny2 = tiny1 + 32, i.e. a 16-byte *)
(* header): 32-bit pointers, 32-bit size_t, 32-bit unsigned int.           *)
(*                                                                         *)
(* Header bytes that stop being a header (a block absorbed by              *)
(* remove_block becomes payload of its left neighbour; a block above the   *)
(* break after brk() is unmapped) leave the domain of mem: no function of  *)
(* the allocator reads them again before rewriting all four fields.        *)
(***************************************************************************)
EXTENDS Integers, FiniteSets, Sequences, TLC

(***************************************************************************)
(* Program constants                                                       *)
(***************************************************************************)
MINIMUM_ALLOCATION == 16
SIZE_MULTIPLE == 8
FREE == 1
TAKEN == 0
NULL == 0
\* sizeof(Block) on the 32-bit build: two pointers and two uint32_t
SizeofBlock == 16
\* unsigned int, uint32_t, size_t, intptr_t and pointers are all 32 bits
\* wide.  A 32-bit word is kept as the integer its bits denote in two's
\* complement (what intptr_t reads): 0 .. INT_MAX stand for themselves and
\* INT_MIN .. -1 stand for the unsigned values 2^31 .. 2^32 - 1.
INT_MAX == 2147483647
INT_MIN == -INT_MAX - 1
\* the largest unsigned int, 2^32 - 1
UINT_MAX == -1
\* the value sbrk returns on failure, the pointer -1
SBRK_FAILED == -1
\* the break before the first allocation
HeapStart == 4096

(***************************************************************************)
(* Bounds of the model                                                     *)
(***************************************************************************)
\* the Memory Source refuses to move the break past HeapStart + 8 * HeapUnits
HeapUnits == 17
\* ordinary request sizes are 1 .. MaxRequest (only a few of them are used)
MaxRequest == 56

\* round_up_size is tried on RoundSpan + 1 values at each end and in the
\* middle of the unsigned range
RoundSpan == 40

BrkLimit == HeapStart + 8 * HeapUnits

\* the request sizes handed to my_malloc: zero, one below the minimum, one
\* that needs rounding, the largest ordinary one, one that the Memory Source
\* can never grant (2^31), and the largest unsigned int.
\* Not drawn: the requests 2^32 - 31 .. 2^32 - 8, whose rounded size makes
\* sizeof(Block) + size wrap to -8, 0 or 8, so that add_to_list would write
\* its header above the break it was granted.
Requests ==
  {0, 5, 20, MaxRequest, INT_MIN, UINT_MAX}

\* the values a payload pointer can take below the limit of the break
Pointers ==
  {NULL} \cup {HeapStart + SizeofBlock + 8 * k : k \in 0 .. HeapUnits}

(***************************************************************************)
(* State                                                                   *)
(***************************************************************************)
VARIABLES
  head,     \* Block *head
  tail,     \* Block *tail
  mem,      \* header address -> [next, last, is_free, data_size]
  brk,      \* the program break
  crashed,  \* the process died inside a call (store through the pointer -1)
  live,     \* the caller's pointers: returned by my_malloc, not yet freed
  last,     \* the last call: its name, argument and result; for a release
            \* cap, the capacity of the released block; for an allocate
            \* again, whether it returned the pointer that the call just
            \* before it released
  phase,    \* the caller's round-trip sequence: "none", "alloc" or "rel"
  brk0,     \* the break when the sequence began
  owed,     \* the pointers the sequence's allocate calls returned
  thr,      \* per calling thread: where it is in my_malloc (pc), my_malloc's
            \* locals size and free_block, and the pointers it holds
  lock      \* the callers' mutual exclusion: NoLock when they use none,
            \* else 0 (free) or the thread that is inside a call

vars ==
  <<head, tail, mem, brk, crashed, live, last, phase, brk0, owed, thr, lock>>

\* the engine's state as one value, for the operators below
Heap == [head |-> head, tail |-> tail, mem |-> mem, brk |-> brk]

(***************************************************************************)
(* Fixed-width arithmetic                                                  *)
(***************************************************************************)
\* a + b modulo 2^32
Add32(a, b) ==
  IF a >= 0 /\ b >= 0 /\ b > INT_MAX - a
  THEN (a + INT_MIN) + (b + INT_MIN)
  ELSE IF a < 0 /\ b < 0 /\ b < INT_MIN - a
  THEN (a - INT_MIN) + (b - INT_MIN)
  ELSE a + b

\* -b modulo 2^32
Neg32(b) == IF b = INT_MIN THEN INT_MIN ELSE 0 - b

\* a - b modulo 2^32
Sub32(a, b) == Add32(a, Neg32(b))

\* a < b, a <= b, a >= b of unsigned 32-bit words
LtU(a, b) == IF (a >= 0) = (b >= 0) THEN a < b ELSE a >= 0
LeU(a, b) == a = b \/ LtU(a, b)
GeU(a, b) == ~LtU(a, b)

\* x & ~(SIZE_MULTIPLE - 1)
ClearLowBits(x) == x - (x % SIZE_MULTIPLE)

\* PTR_ADD_BYTES(ptr, byte_offs)
PTR_ADD_BYTES(ptr, byte_offs) == Add32(ptr, byte_offs)

(***************************************************************************)
(* round_up_size                                                           *)
(***************************************************************************)
round_up_size(data_size) ==
  IF data_size = 0 THEN 0
  ELSE IF LtU(data_size, MINIMUM_ALLOCATION) THEN MINIMUM_ALLOCATION
  ELSE ClearLowBits(Add32(data_size, SIZE_MULTIPLE - 1))

get_data_pointer(block) == PTR_ADD_BYTES(block, SizeofBlock)

\* PTR_ADD_BYTES(ptr, -1 * sizeof(Block))
HeaderAt(ptr) == PTR_ADD_BYTES(ptr, 0 - SizeofBlock)

(***************************************************************************)
(* find_free_block: the scan from head along next                          *)
(***************************************************************************)
RECURSIVE ScanFrom(_, _, _)
ScanFrom(S, cur, size) ==
  IF cur = NULL THEN NULL
  ELSE IF S.mem[cur].is_free = FREE /\ GeU(S.mem[cur].data_size, size)
  THEN cur
  ELSE ScanFrom(S, S.mem[cur].next, size)

\* mutant: the scan asks for a block strictly larger than the request
RECURSIVE ScanFromStrict(_, _, _)
ScanFromStrict(S, cur, size) ==
  IF cur = NULL THEN NULL
  ELSE IF S.mem[cur].is_free = FREE /\ LtU(size, S.mem[cur].data_size)
  THEN cur
  ELSE ScanFromStrict(S, S.mem[cur].next, size)

find_free_block_strict(S, size) == ScanFromStrict(S, S.head, size)

\* mutant: the scan runs from tail along last, so the highest fit wins
RECURSIVE ScanBack(_, _, _)
ScanBack(S, cur, size) ==
  IF cur = NULL THEN NULL
  ELSE IF S.mem[cur].is_free = FREE /\ GeU(S.mem[cur].data_size, size)
  THEN cur
  ELSE ScanBack(S, S.mem[cur].last, size)

find_free_block_last(S, size) == ScanBack(S, S.tail, size)

find_free_block(S, size) == ScanFrom(S, S.head, size)

(***************************************************************************)
(* add_block_after                                                         *)
(***************************************************************************)
\* mutant: the last field of the block after the new one is not updated
add_block_after_no_back_link(S, prev_block, size, is_free) ==
  LET new_block == PTR_ADD_BYTES(get_data_pointer(prev_block),
                                 S.mem[prev_block].data_size)
      old_next  == S.mem[prev_block].next
      m1 == (new_block :> [next |-> old_next, last |-> prev_block,
                           is_free |-> is_free, data_size |-> size]) @@ S.mem
      m2 == m1
      m3 == [m2 EXCEPT ![prev_block].next = new_block]
  IN  [S EXCEPT !.mem = m3]

add_block_after(S, prev_block, size, is_free) ==
  LET new_block == PTR_ADD_BYTES(get_data_pointer(prev_block),
                                 S.mem[prev_block].data_size)
      old_next  == S.mem[prev_block].next
      m1 == (new_block :> [next |-> old_next, last |-> prev_block,
                           is_free |-> is_free, data_size |-> size]) @@ S.mem
      m2 == IF old_next # NULL
            THEN [m1 EXCEPT ![old_next].last = new_block]
            ELSE m1
      m3 == [m2 EXCEPT ![prev_block].next = new_block]
  IN  [S EXCEPT !.mem = m3]

(***************************************************************************)
(* update_block                                                            *)
(***************************************************************************)
\* mutant: the threshold test is < instead of <=
update_block_lt(S, free_block, size) ==
  LET S1 == [S EXCEPT !.mem[free_block].is_free = TAKEN]
      size_left_over == Sub32(S.mem[free_block].data_size, size)
      minimum_block_size == SizeofBlock + MINIMUM_ALLOCATION
  IN  IF LtU(size_left_over, minimum_block_size)
      THEN S1
      ELSE add_block_after([S1 EXCEPT !.mem[free_block].data_size = size],
                           free_block,
                           Sub32(size_left_over, SizeofBlock),
                           FREE)

\* mutant: the new block is given everything left over, its header included
update_block_whole_rest(S, free_block, size) ==
  LET S1 == [S EXCEPT !.mem[free_block].is_free = TAKEN]
      size_left_over == Sub32(S.mem[free_block].data_size, size)
      minimum_block_size == SizeofBlock + MINIMUM_ALLOCATION
  IN  IF LeU(size_left_over, minimum_block_size)
      THEN S1
      ELSE add_block_after([S1 EXCEPT !.mem[free_block].data_size = size],
                           free_block,
                           size_left_over,
                           FREE)

\* mutant: blocks with up to 8 more bytes left over are not split
update_block_wide(S, free_block, size) ==
  LET S1 == [S EXCEPT !.mem[free_block].is_free = TAKEN]
      size_left_over == Sub32(S.mem[free_block].data_size, size)
      minimum_block_size == SizeofBlock + MINIMUM_ALLOCATION + SIZE_MULTIPLE
  IN  IF LeU(size_left_over, minimum_block_size)
      THEN S1
      ELSE add_block_after([S1 EXCEPT !.mem[free_block].data_size = size],
                           free_block,
                           Sub32(size_left_over, SizeofBlock),
                           FREE)

\* mutant: the block is not marked TAKEN
update_block_no_mark(S, free_block, size) ==
  LET S1 == S
      size_left_over == Sub32(S.mem[free_block].data_size, size)
      minimum_block_size == SizeofBlock + MINIMUM_ALLOCATION
  IN  IF LeU(size_left_over, minimum_block_size)
      THEN S1
      ELSE add_block_after([S1 EXCEPT !.mem[free_block].data_size = size],
                           free_block,
                           Sub32(size_left_over, SizeofBlock),
                           FREE)

update_block(S, free_block, size) ==
  LET S1 == [S EXCEPT !.mem[free_block].is_free = TAKEN]
      size_left_over == Sub32(S.mem[free_block].data_size, size)
      minimum_block_size == SizeofBlock + MINIMUM_ALLOCATION
  IN  IF LeU(size_left_over, minimum_block_size)
      THEN S1
      ELSE add_block_after([S1 EXCEPT !.mem[free_block].data_size = size],
                           free_block,
                           Sub32(size_left_over, SizeofBlock),
                           FREE)

(***************************************************************************)
(* The Memory Source: sbrk and brk                                         *)
(***************************************************************************)
\* sbrk(increment): the old break, and the break moved, when the new break
\* stays inside what the OS grants; the pointer -1 and no change otherwise
sbrk(S, increment) ==
  IF increment >= HeapStart - S.brk /\ increment <= BrkLimit - S.brk
  THEN [ret |-> S.brk, S |-> [S EXCEPT !.brk = S.brk + increment]]
  ELSE [ret |-> SBRK_FAILED, S |-> S]

\* contract_heap: brk(block); the memory from block upwards is unmapped
contract_heap(S, block) ==
  [S EXCEPT !.brk = block,
            !.mem = [a \in {x \in DOMAIN S.mem : LtU(x, block)} |-> S.mem[a]]]

(***************************************************************************)
(* add_to_list                                                             *)
(*   ret: the new tail, or NULL; fault: a store through the pointer -1.    *)
(*   tail_stored: whether the store to the global tail had reached memory  *)
(*   when the process faulted.                                             *)
(***************************************************************************)
\* mutant: the break is moved by size only, without the header
add_to_list_short(S, size, tail_stored) ==
  IF (S.head = NULL /\ S.tail # NULL) \/ (S.tail = NULL /\ S.head # NULL)
  THEN [ret |-> NULL, fault |-> FALSE, S |-> S]
  ELSE
    LET grown == sbrk(S, size)
        memory_address == grown.ret
        S1 == grown.S
        prev_tail == S.tail
    IN  IF memory_address = SBRK_FAILED
        THEN \* tail = the pointer -1; tail->data_size = size faults
             [ret |-> NULL, fault |-> TRUE,
              S |-> IF tail_stored THEN [S1 EXCEPT !.tail = SBRK_FAILED]
                                   ELSE S1]
        ELSE
          LET fresh == [next |-> NULL,
                        last |-> prev_tail,
                        is_free |-> TAKEN,
                        data_size |-> size]
              m1 == (memory_address :> fresh) @@ S1.mem
          IN  IF prev_tail = NULL
              THEN [ret |-> memory_address, fault |-> FALSE,
                    S |-> [S1 EXCEPT !.mem = m1,
                                     !.head = memory_address,
                                     !.tail = memory_address]]
              ELSE [ret |-> memory_address, fault |-> FALSE,
                    S |-> [S1 EXCEPT
                             !.mem = [m1 EXCEPT ![prev_tail].next =
                                                   memory_address],
                             !.tail = memory_address]]

add_to_list(S, size, tail_stored) ==
  IF (S.head = NULL /\ S.tail # NULL) \/ (S.tail = NULL /\ S.head # NULL)
  THEN [ret |-> NULL, fault |-> FALSE, S |-> S]
  ELSE
    LET grown == sbrk(S, Add32(SizeofBlock, size))
        memory_address == grown.ret
        S1 == grown.S
        prev_tail == S.tail
    IN  IF memory_address = SBRK_FAILED
        THEN \* tail = the pointer -1; tail->data_size = size faults
             [ret |-> NULL, fault |-> TRUE,
              S |-> IF tail_stored THEN [S1 EXCEPT !.tail = SBRK_FAILED]
                                   ELSE S1]
        ELSE
          LET fresh == [next |-> NULL,
                        last |-> prev_tail,
                        is_free |-> TAKEN,
                        data_size |-> size]
              m1 == (memory_address :> fresh) @@ S1.mem
          IN  IF prev_tail = NULL
              THEN [ret |-> memory_address, fault |-> FALSE,
                    S |-> [S1 EXCEPT !.mem = m1,
                                     !.head = memory_address,
                                     !.tail = memory_address]]
              ELSE [ret |-> memory_address, fault |-> FALSE,
                    S |-> [S1 EXCEPT
                             !.mem = [m1 EXCEPT ![prev_tail].next =
                                                   memory_address],
                             !.tail = memory_address]]

(***************************************************************************)
(* remove_from_list                                                        *)
(***************************************************************************)
\* mutant: the global head is left alone
remove_from_list_keep_head(S, block) ==
  LET b  == S.mem[block]
      m1 == IF b.last # NULL
            THEN [S.mem EXCEPT ![b.last].next = b.next]
            ELSE S.mem
      m2 == IF b.next # NULL
            THEN [m1 EXCEPT ![b.next].last = b.last]
            ELSE m1
  IN  [S EXCEPT !.mem  = m2,
                !.tail = IF block = S.tail THEN b.last ELSE S.tail]

remove_from_list(S, block) ==
  LET b  == S.mem[block]
      m1 == IF b.last # NULL
            THEN [S.mem EXCEPT ![b.last].next = b.next]
            ELSE S.mem
      m2 == IF b.next # NULL
            THEN [m1 EXCEPT ![b.next].last = b.last]
            ELSE m1
  IN  [S EXCEPT !.mem  = m2,
                !.head = IF block = S.head THEN b.next ELSE S.head,
                !.tail = IF block = S.tail THEN b.last ELSE S.tail]

(***************************************************************************)
(* remove_block: fold block into the block on its left                     *)
(***************************************************************************)
\* mutant: the global tail is left alone when the last block is folded away
remove_block_keep_tail(S, block) ==
  LET b  == S.mem[block]
      m1 == IF b.next # NULL
            THEN [S.mem EXCEPT ![b.last].next = b.next,
                               ![b.next].last = b.last]
            ELSE [S.mem EXCEPT ![b.last].next = NULL]
      m2 == [m1 EXCEPT ![b.last].data_size =
               Add32(Add32(m1[b.last].data_size, SizeofBlock), b.data_size)]
  IN  [ret |-> b.last,
       S |-> [S EXCEPT !.mem = [a \in DOMAIN m2 \ {block} |-> m2[a]]]]

\* mutant: the absorbed header is not counted in the merged size
remove_block_no_header(S, block) ==
  LET b  == S.mem[block]
      m1 == IF b.next # NULL
            THEN [S.mem EXCEPT ![b.last].next = b.next,
                               ![b.next].last = b.last]
            ELSE [S.mem EXCEPT ![b.last].next = NULL]
      m2 == [m1 EXCEPT ![b.last].data_size =
               Add32(m1[b.last].data_size, b.data_size)]
  IN  [ret |-> b.last,
       S |-> [S EXCEPT
                !.tail = IF b.next # NULL THEN S.tail ELSE b.last,
                !.mem  = [a \in DOMAIN m2 \ {block} |-> m2[a]]]]

remove_block(S, block) ==
  LET b  == S.mem[block]
      m1 == IF b.next # NULL
            THEN [S.mem EXCEPT ![b.last].next = b.next,
                               ![b.next].last = b.last]
            ELSE [S.mem EXCEPT ![b.last].next = NULL]
      m2 == [m1 EXCEPT ![b.last].data_size =
               Add32(Add32(m1[b.last].data_size, SizeofBlock), b.data_size)]
  IN  [ret |-> b.last,
       S |-> [S EXCEPT
                !.tail = IF b.next # NULL THEN S.tail ELSE b.last,
                !.mem  = [a \in DOMAIN m2 \ {block} |-> m2[a]]]]

(***************************************************************************)
(* coalesce                                                                *)
(***************************************************************************)
\* mutant: only the left neighbour is merged
coalesce_left_only(S, block) ==
  IF S.mem[block].last # NULL /\ S.mem[S.mem[block].last].is_free = FREE
  THEN remove_block(S, block)
  ELSE [ret |-> block, S |-> S]

\* mutant: the block on the right is merged whether it is FREE or not
coalesce_any_right(S, block) ==
  LET left == IF S.mem[block].last # NULL
                 /\ S.mem[S.mem[block].last].is_free = FREE
              THEN remove_block(S, block)
              ELSE [ret |-> block, S |-> S]
      S1 == left.S
      b1 == left.ret
  IN  IF S1.mem[b1].next # NULL
      THEN remove_block(S1, S1.mem[b1].next)
      ELSE [ret |-> b1, S |-> S1]

\* mutant: the block on the left is merged whether it is FREE or not
coalesce_any_left(S, block) ==
  LET left == IF S.mem[block].last # NULL
              THEN remove_block(S, block)
              ELSE [ret |-> block, S |-> S]
      S1 == left.S
      b1 == left.ret
  IN  IF S1.mem[b1].next # NULL /\ S1.mem[S1.mem[b1].next].is_free = FREE
      THEN remove_block(S1, S1.mem[b1].next)
      ELSE [ret |-> b1, S |-> S1]

coalesce(S, block) ==
  LET left == IF S.mem[block].last # NULL
                 /\ S.mem[S.mem[block].last].is_free = FREE
              THEN remove_block(S, block)
              ELSE [ret |-> block, S |-> S]
      S1 == left.S
      b1 == left.ret
  IN  IF S1.mem[b1].next # NULL /\ S1.mem[S1.mem[b1].next].is_free = FREE
      THEN remove_block(S1, S1.mem[b1].next)
      ELSE [ret |-> b1, S |-> S1]

(***************************************************************************)
(* my_malloc                                                               *)
(***************************************************************************)
\* mutant: the size == 0 test is missing
my_malloc_no_zero_test(S, request, tail_stored) ==
  LET size == round_up_size(request)
      free_block == find_free_block(S, size)
  IN  IF free_block # NULL
      THEN [ret |-> get_data_pointer(free_block), fault |-> FALSE,
            S |-> update_block(S, free_block, size)]
      ELSE
        LET added == add_to_list(S, size, tail_stored)
        IN  IF added.fault \/ added.ret = NULL
            THEN [ret |-> NULL, fault |-> added.fault, S |-> added.S]
            ELSE [ret |-> get_data_pointer(added.ret), fault |-> FALSE,
                  S |-> added.S]

my_malloc(S, request, tail_stored) ==
  IF request = 0
  THEN [ret |-> NULL, fault |-> FALSE, S |-> S]
  ELSE
    LET size == round_up_size(request)
        free_block == find_free_block(S, size)
    IN  IF free_block # NULL
        THEN [ret |-> get_data_pointer(free_block), fault |-> FALSE,
              S |-> update_block(S, free_block, size)]
        ELSE
          LET added == add_to_list(S, size, tail_stored)
          IN  IF added.fault \/ added.ret = NULL
              THEN [ret |-> NULL, fault |-> added.fault, S |-> added.S]
              ELSE [ret |-> get_data_pointer(added.ret), fault |-> FALSE,
                    S |-> added.S]

(***************************************************************************)
(* my_free                                                                 *)
(***************************************************************************)
\* mutant: a FREE tail is kept in the list, the break is not moved back
my_free_keep_tail(S, ptr) ==
  IF ptr = NULL
  THEN S
  ELSE coalesce([S EXCEPT !.mem[HeaderAt(ptr)].is_free = FREE],
                HeaderAt(ptr)).S

\* mutant: the released block is not merged with its neighbours
my_free_no_coalesce(S, ptr) ==
  IF ptr = NULL
  THEN S
  ELSE
    LET free_block == HeaderAt(ptr)
        S1 == [S EXCEPT !.mem[free_block].is_free = FREE]
    IN  IF free_block = S1.tail
        THEN contract_heap(remove_from_list(S1, free_block), free_block)
        ELSE S1

\* mutant: the tail test looks at the released block, not at the merged one
my_free_stale_tail_test(S, ptr) ==
  IF ptr = NULL
  THEN S
  ELSE
    LET free_block == HeaderAt(ptr)
        S1 == [S EXCEPT !.mem[free_block].is_free = FREE]
        merged == coalesce(S1, free_block)
    IN  IF free_block = merged.S.tail
        THEN contract_heap(remove_from_list(merged.S, free_block),
                           free_block)
        ELSE merged.S

my_free(S, ptr) ==
  IF ptr = NULL
  THEN S
  ELSE
    LET free_block == HeaderAt(ptr)
        S1 == [S EXCEPT !.mem[free_block].is_free = FREE]
        merged == coalesce(S1, free_block)
        after_coalesce == merged.ret
    IN  IF after_coalesce = merged.S.tail
        THEN contract_heap(remove_from_list(merged.S, after_coalesce),
                           after_coalesce)
        ELSE merged.S

(***************************************************************************)
(* The list as the scan sees it                                            *)
(***************************************************************************)
RECURSIVE Chain(_, _, _)
Chain(m, cur, fuel) ==
  IF cur = NULL \/ fuel = 0 \/ cur \notin DOMAIN m THEN <<>>
  ELSE <<cur>> \o Chain(m, m[cur].next, fuel - 1)

\* the blocks reachable from head along next, in scan order
List == Chain(mem, head, Cardinality(DOMAIN mem) + 1)

Blocks == {List[i] : i \in 1 .. Len(List)}

(***************************************************************************)
(* Initial state and the calls                                             *)
(***************************************************************************)
\* the callers: one in Spec's atomic calls, two where calls interleave
Threads == {1, 2}

\* a thread outside my_malloc that holds no pointer
NoThread == [pc |-> "idle", size |-> 0, free_block |-> NULL, held |-> {}]

\* the value of lock when the callers use no mutual exclusion
NoLock == -1

NoCall == [op |-> "none", arg |-> 0, ret |-> NULL, cap |-> 0, again |-> FALSE]

Init ==
  /\ head = NULL
  /\ tail = NULL
  /\ mem = << >>
  /\ brk = HeapStart
  /\ crashed = FALSE
  /\ live = {}
  /\ last = NoCall
  /\ phase = "none"
  /\ brk0 = HeapStart
  /\ owed = {}
  /\ thr = [t \in Threads |-> NoThread]
  /\ lock = NoLock

\* a call of my_malloc(request); outside the release part of a sequence
Malloc(request) ==
  /\ ~crashed
  /\ phase # "rel"
  /\ \E tail_stored \in BOOLEAN :
       \E r \in {my_malloc(Heap, request, tail_stored)} :
           /\ head' = r.S.head
           /\ tail' = r.S.tail
           /\ mem' = r.S.mem
           /\ brk' = r.S.brk
           /\ crashed' = r.fault
           /\ live' = IF r.ret # NULL THEN live \cup {r.ret} ELSE live
           /\ owed' = IF phase = "alloc" /\ r.ret # NULL
                      THEN owed \cup {r.ret} ELSE owed
           /\ last' = [op |-> "malloc", arg |-> request, ret |-> r.ret,
                       cap |-> 0,
                       again |-> last.op = "free" /\ last.arg # NULL
                                 /\ r.ret = last.arg]
  /\ UNCHANGED <<phase, brk0, thr, lock>>

\* a call of my_free(ptr) that obeys the contract: ptr is NULL or a pointer
\* my_malloc returned and that was not released since; outside the allocate
\* part of a sequence, and inside its release part only the sequence's own
Free(ptr) ==
  /\ ~crashed
  /\ phase # "alloc"
  /\ ptr \in live \cup {NULL}
  /\ phase = "rel" => ptr \in owed \cup {NULL}
  /\ \E S \in {my_free(Heap, ptr)} :
         /\ head' = S.head
         /\ tail' = S.tail
         /\ mem' = S.mem
         /\ brk' = S.brk
  /\ live' = live \ {ptr}
  /\ owed' = owed \ {ptr}
  /\ last' = [op |-> "free", arg |-> ptr, ret |-> NULL,
              cap |-> IF ptr = NULL THEN 0
                      ELSE mem[HeaderAt(ptr)].data_size,
              again |-> FALSE]
  /\ UNCHANGED <<crashed, phase, brk0, thr, lock>>

\* the caller begins a sequence of allocate calls (check_heap_size's
\* heap_at_start = sbrk(0))
BeginSequence ==
  /\ ~crashed
  /\ phase = "none"
  /\ phase' = "alloc"
  /\ brk0' = brk
  /\ owed' = {}
  /\ UNCHANGED <<head, tail, mem, brk, crashed, live, last, thr, lock>>

\* the caller stops allocating and starts releasing what it was given
BeginReleases ==
  /\ ~crashed
  /\ phase = "alloc"
  /\ phase' = "rel"
  /\ UNCHANGED <<head, tail, mem, brk, crashed, live, last, brk0, owed,
                 thr, lock>>

\* every pointer of the sequence was released: the sequence is over
EndSequence ==
  /\ ~crashed
  /\ phase = "rel"
  /\ owed = {}
  /\ phase' = "none"
  /\ brk0' = HeapStart
  /\ UNCHANGED <<head, tail, mem, brk, crashed, live, last, owed, thr, lock>>

Next ==
  \/ \E request \in Requests : Malloc(request)
  \/ \E ptr \in Pointers : Free(ptr)

\* any interleaving of allocate and release calls that obeys the contract
Spec == Init /\ [][Next]_vars

NextRoundTrip ==
  \/ Next
  \/ BeginSequence
  \/ BeginReleases
  \/ EndSequence

\* the same, with the caller marking round-trip sequences: from any state,
\* some allocate calls, then the release of every pointer they returned
SpecRoundTrip == Init /\ [][NextRoundTrip]_vars

(***************************************************************************)
(* round_up_size on its own: an input is drawn, then the function is       *)
(* applied to it                                                           *)
(***************************************************************************)
\* the values 0 .., .. 2^31 - 1, 2^31 .. and .. 2^32 - 1
RoundInputs ==
  UNION {{k, INT_MAX - k, INT_MIN + k, UINT_MAX - k} : k \in 0 .. RoundSpan}

InitRound ==
  /\ head = NULL
  /\ tail = NULL
  /\ mem = << >>
  /\ brk = HeapStart
  /\ crashed = FALSE
  /\ live = {}
  /\ \E v \in RoundInputs : last = [NoCall EXCEPT !.op = "input", !.arg = v]
  /\ phase = "none"
  /\ brk0 = HeapStart
  /\ owed = {}
  /\ thr = [t \in Threads |-> NoThread]
  /\ lock = NoLock

Round ==
  /\ last.op = "input"
  /\ last' = [last EXCEPT !.op = "round", !.ret = round_up_size(last.arg)]
  /\ UNCHANGED <<head, tail, mem, brk, crashed, live, phase, brk0, owed,
                 thr, lock>>

SpecRound == InitRound /\ [][Round]_vars

(***************************************************************************)
(* Two threads calling my_malloc and my_free.  A call of my_malloc is two  *)
(* steps, the lookup (round_up_size, find_free_block) and what follows it  *)
(* (update_block or add_to_list); with no mutual exclusion the steps of    *)
(* the two threads interleave, with it a thread holds the lock from its    *)
(* lookup to its return.  Releases run while no my_malloc is under way.    *)
(***************************************************************************)
\* the sizes the threads ask for
ConcurrentRequests == {5, 20, MaxRequest}

\* two threads hold the same pointer
DoubleGrant ==
  \E t \in Threads, u \in Threads :
     t # u /\ thr[t].held \cap thr[u].held # {}

InitConcurrent ==
  /\ head = NULL
  /\ tail = NULL
  /\ mem = << >>
  /\ brk = HeapStart
  /\ crashed = FALSE
  /\ live = {}
  /\ last = NoCall
  /\ phase = "none"
  /\ brk0 = HeapStart
  /\ owed = {}
  /\ thr = [t \in Threads |-> NoThread]
  /\ lock \in {NoLock, 0}

\* my_malloc up to and including find_free_block
Lookup(t, request) ==
  /\ ~crashed
  /\ ~DoubleGrant
  /\ thr[t].pc = "idle"
  /\ lock \in {NoLock, 0}
  /\ thr' = [thr EXCEPT ![t].pc = "found",
                        ![t].size = round_up_size(request),
                        ![t].free_block =
                           find_free_block(Heap, round_up_size(request))]
  /\ lock' = IF lock = NoLock THEN NoLock ELSE t
  /\ UNCHANGED <<head, tail, mem, brk, crashed, live, last, phase, brk0, owed>>

\* my_malloc from the test of free_block to its return
Commit(t) ==
  /\ ~crashed
  /\ thr[t].pc = "found"
  /\ \E tail_stored \in BOOLEAN :
       \E r \in {IF thr[t].free_block # NULL
                 THEN [ret |-> get_data_pointer(thr[t].free_block),
                       fault |-> FALSE,
                       S |-> update_block(Heap, thr[t].free_block,
                                          thr[t].size)]
                 ELSE LET added == add_to_list(Heap, thr[t].size, tail_stored)
                      IN  IF added.fault \/ added.ret = NULL
                          THEN [ret |-> NULL, fault |-> added.fault,
                                S |-> added.S]
                          ELSE [ret |-> get_data_pointer(added.ret),
                                fault |-> FALSE, S |-> added.S]} :
           /\ head' = r.S.head
           /\ tail' = r.S.tail
           /\ mem' = r.S.mem
           /\ brk' = r.S.brk
           /\ crashed' = r.fault
           /\ live' = IF r.ret # NULL THEN live \cup {r.ret} ELSE live
           /\ thr' = [thr EXCEPT
                        ![t] = [NoThread EXCEPT
                                  !.held = IF r.ret # NULL
                                           THEN thr[t].held \cup {r.ret}
                                           ELSE thr[t].held]]
  /\ lock' = IF lock = NoLock THEN NoLock ELSE 0
  /\ UNCHANGED <<last, phase, brk0, owed>>

\* my_free(ptr) by the thread that holds ptr
Release(t, ptr) ==
  /\ ~crashed
  /\ ~DoubleGrant
  /\ \A u \in Threads : thr[u].pc = "idle"
  /\ ptr \in thr[t].held
  /\ \E S \in {my_free(Heap, ptr)} :
         /\ head' = S.head
         /\ tail' = S.tail
         /\ mem' = S.mem
         /\ brk' = S.brk
  /\ live' = live \ {ptr}
  /\ thr' = [thr EXCEPT ![t].held = thr[t].held \ {ptr}]
  /\ UNCHANGED <<crashed, last, phase, brk0, owed, lock>>

NextConcurrent ==
  \/ \E t \in Threads, request \in ConcurrentRequests : Lookup(t, request)
  \/ \E t \in Threads : Commit(t)
  \/ \E t \in Threads, ptr \in Pointers : Release(t, ptr)

SpecConcurrent == InitConcurrent /\ [][NextConcurrent]_vars

(***************************************************************************)
(* Helpers of the properties                                               *)
(***************************************************************************)
\* the FREE blocks of the list that can hold size bytes
Fits(size) ==
  {b \in Blocks : mem[b].is_free = FREE /\ GeU(mem[b].data_size, size)}

\* the lowest address of a non-empty set of addresses
Lowest(addrs) == CHOOSE b \in addrs : \A c \in addrs : LeU(b, c)

\* the engine's state did not change in this step
EngineUnchanged == UNCHANGED <<head, tail, mem, brk>>

\* this step is a call of my_malloc with a non-zero size: only Malloc sets
\* last.op to "malloc", and every such call changes last (it returns a pointer
\* that was not live, or it is the call the process dies in)
Allocated == last' # last /\ last'.op = "malloc" /\ last'.arg # 0

\* this step is a call of my_free with a non-null pointer
Released == last' # last /\ last'.op = "free" /\ last'.arg # NULL

\* the address right after the payload of block b
EndOf(b) == Add32(Add32(b, SizeofBlock), mem[b].data_size)

\* the left and right neighbours of block b that a release of b merges with,
\* or b itself where the neighbour is missing or TAKEN
MergeLeft(b) ==
  IF mem[b].last # NULL /\ mem[mem[b].last].is_free = FREE
  THEN mem[b].last ELSE b

MergeRight(b) ==
  IF mem[b].next # NULL /\ mem[mem[b].next].is_free = FREE
  THEN mem[b].next ELSE b

\* the data_size of the block that b, MergeLeft(b) and MergeRight(b) make
MergedSize(b) ==
  LET withLeft == IF MergeLeft(b) # b
                  THEN Add32(Add32(mem[MergeLeft(b)].data_size, SizeofBlock),
                             mem[b].data_size)
                  ELSE mem[b].data_size
  IN  IF MergeRight(b) # b
      THEN Add32(Add32(withLeft, SizeofBlock), mem[MergeRight(b)].data_size)
      ELSE withLeft

\* the byte ranges [a1, e1) and [a2, e2) have no byte in common
Disjoint(a1, e1, a2, e2) == a1 = e1 \/ a2 = e2 \/ LeU(e1, a2) \/ LeU(e2, a1)

\* no free block fits the request and the Memory Source refuses to grow
GrowRefused(request) ==
  /\ request # 0
  /\ find_free_block(Heap, round_up_size(request)) = NULL
  /\ sbrk(Heap, Add32(SizeofBlock, round_up_size(request))).ret = SBRK_FAILED

(***************************************************************************)
(* C1  Round trip: from any reachable heap, after some allocate calls and  *)
(* the release, in any order, of every pointer they returned, the break is *)
(* where it was before the first of the allocate calls.                    *)
(***************************************************************************)
C1_RoundTrip == (phase = "rel" /\ owed = {}) => brk = brk0

\* a sequence that began on a non-empty heap is over, and its last release
\* was of a pointer that was not the one handed out last
C1_Witness ==
  /\ phase = "rel"
  /\ owed = {}
  /\ brk0 > HeapStart
  /\ last.op = "free"
  /\ last.arg # NULL
  /\ LtU(get_data_pointer(last.arg), brk0)

(***************************************************************************)
(* C2  For every request n > 0 a non-null pointer returned by allocate(n)  *)
(* is the payload of a TAKEN block of the list with data_size >= n.        *)
(***************************************************************************)
C2_AllocationHoldsRequest ==
  (last.op = "malloc" /\ last.arg # 0 /\ last.ret # NULL) =>
     /\ HeaderAt(last.ret) \in Blocks
     /\ mem[HeaderAt(last.ret)].is_free = TAKEN
     /\ GeU(mem[HeaderAt(last.ret)].data_size, last.arg)

(***************************************************************************)
(* C3  When no free block fits and the Memory Source refuses to grow the   *)
(* break, allocate returns null, the engine's state is unchanged and the   *)
(* engine goes on working.                                                 *)
(***************************************************************************)
C3_ExhaustionIsRecoverable ==
  [][(Allocated /\ GrowRefused(last'.arg)) =>
        /\ last'.ret = NULL
        /\ EngineUnchanged
        /\ ~crashed']_vars

(***************************************************************************)
(* C4  allocate(0) returns null and release(null) returns, and both leave  *)
(* head, tail, every block and the break as they were.                     *)
(***************************************************************************)
C4_NoOpCalls ==
  [][(Malloc(0) \/ Free(NULL)) =>
        /\ last'.ret = NULL
        /\ EngineUnchanged
        /\ ~crashed'
        /\ live' = live]_vars

\* allocate(0) was called on a heap that holds a FREE block
C4_Witness ==
  /\ last.op = "malloc"
  /\ last.arg = 0
  /\ last.ret = NULL
  /\ \E b \in Blocks : mem[b].is_free = FREE

(***************************************************************************)
(* C5  Reuse before growth.                                                *)
(***************************************************************************)
\* C5 as stated: after release(p) of a block of capacity D, the next call,
\* when it is allocate(n) with 0 < n <= normalize(n) <= D, returns p and
\* leaves the break alone
C5_ReuseAsStated ==
  [][(/\ last.op = "free"
      /\ last.arg # NULL
      /\ Allocated
      /\ LeU(last'.arg, round_up_size(last'.arg))
      /\ LeU(round_up_size(last'.arg), last.cap)) =>
        (last'.ret = last.arg /\ brk' = brk)]_vars

\* the released block is still a block of the list: it was not folded into
\* a FREE left neighbour and not handed back to the OS as the tail
StillListed(ptr) ==
  HeaderAt(ptr) \in Blocks /\ mem[HeaderAt(ptr)].is_free = FREE

\* C5 amended: after release(p) of a block of capacity D that the release
\* left in the list (not merged into a FREE left neighbour, not retracted
\* as the tail), the next call, when it is allocate(n) with n > 0 and
\* normalize(n) <= D and no FREE block below p can hold normalize(n),
\* returns p and leaves the break alone
C5_ReuseBeforeGrowth ==
  [][(/\ last.op = "free"
      /\ last.arg # NULL
      /\ Allocated
      /\ LeU(round_up_size(last'.arg), last.cap)
      /\ StillListed(last.arg)
      /\ \A b \in Fits(round_up_size(last'.arg)) :
            GeU(b, HeaderAt(last.arg))) =>
        (last'.ret = last.arg /\ brk' = brk)]_vars


\* the block just released was taken again by the next call, although a
\* FREE block lies below it
C5_Witness ==
  /\ last.op = "malloc"
  /\ last.again
  /\ \E b \in Blocks : mem[b].is_free = FREE /\ LtU(b, HeaderAt(last.ret))

(***************************************************************************)
(* C6  First fit: when some FREE block has data_size >= normalize(n),      *)
(* allocate(n), n > 0, returns the payload of the lowest-addressed such    *)
(* block and leaves the break alone; the break moves only when there is    *)
(* none, and then a new tail block sits at the old break.                  *)
(***************************************************************************)
C6_FirstFit ==
  [][Allocated =>
        \A fits \in {Fits(round_up_size(last'.arg))} :
           /\ fits # {} =>
                /\ last'.ret = get_data_pointer(Lowest(fits))
                /\ brk' = brk
           /\ brk' # brk =>
                /\ fits = {}
                /\ tail' = brk
                /\ last'.ret = get_data_pointer(brk)]_vars

\* the allocate call took a FREE block although a larger FREE block lies
\* above it
C6_Witness ==
  /\ last.op = "malloc"
  /\ last.ret # NULL
  /\ \E b \in Blocks :
       /\ mem[b].is_free = FREE
       /\ LtU(HeaderAt(last.ret), b)
       /\ GeU(mem[b].data_size, mem[HeaderAt(last.ret)].data_size)
       /\ GeU(mem[b].data_size, round_up_size(last.arg))

(***************************************************************************)
(* C7  Splitting threshold: allocate takes a FREE block of capacity D for  *)
(* the normalized size s.  If D - s <= headerSize + 16 the block becomes   *)
(* TAKEN, keeps data_size D and no block is added.  Otherwise its          *)
(* data_size becomes s and one new FREE block of data_size                 *)
(* D - s - headerSize is linked right after it, its header at the block's  *)
(* payload address + s.                                                    *)
(***************************************************************************)
C7_SplitThreshold ==
  [][Allocated =>
        \A fits \in {Fits(round_up_size(last'.arg))} :
           fits # {} =>
             LET s == round_up_size(last'.arg)
                 b == HeaderAt(last'.ret)
                 D == mem[b].data_size
                 rest == PTR_ADD_BYTES(last'.ret, s)
             IN  /\ b \in fits
                 /\ mem'[b].is_free = TAKEN
                 /\ IF D - s <= SizeofBlock + MINIMUM_ALLOCATION
                    THEN /\ mem'[b].data_size = D
                         /\ DOMAIN mem' = DOMAIN mem
                         /\ mem'[b].next = mem[b].next
                    ELSE /\ mem'[b].data_size = s
                         /\ rest \notin DOMAIN mem
                         /\ DOMAIN mem' = DOMAIN mem \cup {rest}
                         /\ mem'[rest].is_free = FREE
                         /\ mem'[rest].data_size = D - s - SizeofBlock
                         /\ mem'[b].next = rest
                         /\ mem'[rest].last = b
                         /\ mem'[rest].next = mem[b].next]_vars

\* an allocate call split a block: the block it returned is exactly as big
\* as the normalized request and the block after it is FREE
C7_WitnessSplit ==
  /\ last.op = "malloc"
  /\ last.ret # NULL
  /\ last.again
  /\ mem[HeaderAt(last.ret)].data_size = round_up_size(last.arg)
  /\ mem[HeaderAt(last.ret)].next # NULL
  /\ mem[mem[HeaderAt(last.ret)].next].is_free = FREE
  /\ \E b \in Blocks :
       /\ mem[b].is_free = TAKEN
       /\ mem[b].data_size =
            round_up_size(5) + SizeofBlock + MINIMUM_ALLOCATION

(***************************************************************************)
(* C8  Coalescing completeness: between calls, when no block is TAKEN the  *)
(* list is empty, head and tail are null and the break is where it was     *)
(* before the first allocation.                                            *)
(***************************************************************************)
C8_AllFreedMeansEmpty ==
  (~crashed /\ \A b \in DOMAIN mem : mem[b].is_free # TAKEN) =>
     /\ head = NULL
     /\ tail = NULL
     /\ DOMAIN mem = {}
     /\ brk = HeapStart

\* the last pointer was released, and it was not the payload of the first
\* block: the release had FREE blocks below it to merge with
C8_Witness ==
  /\ last.op = "free"
  /\ last.arg # NULL
  /\ last.arg # get_data_pointer(HeapStart)
  /\ live = {}
  /\ \A b \in DOMAIN mem : mem[b].is_free # TAKEN

(***************************************************************************)
(* C9  No two blocks adjacent in the list are both FREE.                   *)
(***************************************************************************)
C9_NoAdjacentFree ==
  \A b \in Blocks :
     mem[b].next # NULL =>
        ~(mem[b].is_free = FREE /\ mem[mem[b].next].is_free = FREE)

\* a release left a FREE block larger than the block released (a merge),
\* with a TAKEN block on each side of it
C9_Witness ==
  /\ last.op = "free"
  /\ last.arg # NULL
  /\ \E b \in Blocks :
       /\ mem[b].is_free = FREE
       /\ LtU(last.cap, mem[b].data_size)
       /\ mem[b].last # NULL
       /\ mem[b].next # NULL

(***************************************************************************)
(* C10  Every block of the list, TAKEN or FREE, has a data_size that is a  *)
(* multiple of 8 and at least 16.                                          *)
(***************************************************************************)
C10_SizesAligned ==
  \A b \in Blocks :
     /\ mem[b].data_size % SIZE_MULTIPLE = 0
     /\ GeU(mem[b].data_size, MINIMUM_ALLOCATION)

(***************************************************************************)
(* C11  round_up_size over the whole range of its unsigned argument: 0     *)
(* gives 0, 1 .. 15 give 16, and every other value v gives the least       *)
(* multiple of 8 that is >= v, so the result is never smaller than v.      *)
(***************************************************************************)
C11_Normalize ==
  last.op = "round" =>
     IF last.arg = 0 THEN last.ret = 0
     ELSE IF LtU(last.arg, MINIMUM_ALLOCATION)
     THEN last.ret = MINIMUM_ALLOCATION
     ELSE /\ last.ret % SIZE_MULTIPLE = 0
          /\ GeU(last.ret, last.arg)
          /\ LtU(Sub32(last.ret, last.arg), SIZE_MULTIPLE)

(***************************************************************************)
(* C12  Memory contiguity: between calls every block b that has a          *)
(* successor has it at address(b) + headerSize + b.data_size, so the       *)
(* blocks tile the region from the head upwards without gap or overlap and *)
(* at strictly increasing addresses.                                       *)
(***************************************************************************)
C12_Contiguous ==
  /\ \A b \in Blocks :
        mem[b].next # NULL =>
           /\ mem[b].next = EndOf(b)
           /\ LtU(b, mem[b].next)
  /\ \A b \in Blocks : LeU(head, b)

\* an allocate call split a block that has a block before it, and the block
\* the split inserted has a block after it
C12_Witness ==
  /\ last.op = "malloc"
  /\ last.ret # NULL
  /\ mem[HeaderAt(last.ret)].last # NULL
  /\ mem[HeaderAt(last.ret)].next # NULL
  /\ mem[mem[HeaderAt(last.ret)].next].is_free = FREE
  /\ mem[mem[HeaderAt(last.ret)].next].next # NULL
  /\ brk = BrkLimit

(***************************************************************************)
(* C13  Between calls, when the list is not empty, the global tail is the  *)
(* last block reachable from head along next, which is the block at the    *)
(* highest address, also after a split has inserted a block, and           *)
(* address(tail) + headerSize + tail.data_size is the break.               *)
(***************************************************************************)
C13_TailIsLast ==
  (~crashed /\ head # NULL) =>
     /\ Len(List) > 0
     /\ tail = List[Len(List)]
     /\ mem[tail].next = NULL
     /\ \A b \in Blocks : LeU(b, tail)
     /\ EndOf(tail) = brk

\* an allocate call split the block right before the tail: the block the
\* split inserted stands between the block returned and the tail
C13_Witness ==
  /\ last.op = "malloc"
  /\ last.ret # NULL
  /\ mem[HeaderAt(last.ret)].next # NULL
  /\ mem[mem[HeaderAt(last.ret)].next].is_free = FREE
  /\ mem[mem[HeaderAt(last.ret)].next].next = tail
  /\ mem[HeaderAt(last.ret)].data_size = round_up_size(last.arg)

(***************************************************************************)
(* C14  Between calls the tail block, if there is one, is TAKEN: a release *)
(* that would leave a FREE block at the end of the list unlinks it and     *)
(* moves the break to that block's header address in the same call; any    *)
(* other release leaves break and tail alone.                              *)
(***************************************************************************)
C14_TailTaken ==
  [][/\ (~crashed' /\ tail' # NULL) => mem'[tail'].is_free = TAKEN
     /\ Released =>
          LET b == HeaderAt(last'.arg)
              leftmost == IF mem[b].last # NULL
                             /\ mem[mem[b].last].is_free = FREE
                          THEN mem[b].last ELSE b
              rightmost == IF mem[b].next # NULL
                              /\ mem[mem[b].next].is_free = FREE
                           THEN mem[b].next ELSE b
          IN  IF mem[rightmost].next = NULL
              THEN /\ leftmost \notin DOMAIN mem'
                   /\ brk' = leftmost
                   /\ tail' = mem[leftmost].last
              ELSE /\ brk' = brk
                   /\ tail' = tail]_vars

\* a release of the tail merged it with the FREE block before it and took
\* both off: the break is below the released header and the tail is TAKEN
C14_Witness ==
  /\ last.op = "free"
  /\ last.arg # NULL
  /\ LtU(brk, HeaderAt(last.arg))
  /\ tail # NULL
  /\ mem[tail].is_free = TAKEN

(***************************************************************************)
(* C15  Every pointer that allocate returned and that was not released     *)
(* since points headerSize bytes after a header that is in the list and is *)
(* TAKEN: no call on other blocks frees, absorbs or unlinks that header.   *)
(***************************************************************************)
C15_LivePointersHeld ==
  \A p \in live :
     /\ HeaderAt(p) \in Blocks
     /\ mem[HeaderAt(p)].is_free = TAKEN
     /\ get_data_pointer(HeaderAt(p)) = p

\* a release merged blocks right before a live allocation, and the break
\* has been moved back behind another
C15_Witness ==
  /\ last.op = "free"
  /\ last.arg # NULL
  /\ brk # BrkLimit
  /\ \E p \in live :
       /\ mem[HeaderAt(p)].last # NULL
       /\ mem[mem[HeaderAt(p)].last].is_free = FREE
       /\ LtU(last.cap, mem[mem[HeaderAt(p)].last].data_size)
       /\ LtU(mem[HeaderAt(p)].last, HeaderAt(last.arg))

(***************************************************************************)
(* C16 as stated: a release of block b with a FREE left neighbour L and/or *)
(* a FREE right neighbour R yields one FREE block at the address of the    *)
(* leftmost merged block, whose data_size is the sum of the merged         *)
(* data_sizes plus headerSize per absorbed block, and the absorbed headers *)
(* are no longer in the list.  Only heaps whose blocks all have a          *)
(* data_size of 16 or more are looked at.                                  *)
(***************************************************************************)
C16_MergeAsStated ==
  [][Released =>
       \A b \in {HeaderAt(last'.arg)} :
          (/\ MergeLeft(b) # b \/ MergeRight(b) # b
           /\ \A a \in DOMAIN mem :
                 GeU(mem[a].data_size, MINIMUM_ALLOCATION)) =>
             /\ MergeLeft(b) \in DOMAIN mem'
             /\ mem'[MergeLeft(b)].is_free = FREE
             /\ mem'[MergeLeft(b)].data_size = MergedSize(b)
             /\ \A a \in {b, MergeRight(b)} \ {MergeLeft(b)} :
                   a \notin DOMAIN mem']_vars

(***************************************************************************)
(* C16 amended: the same, when a block follows the merged blocks; the      *)
(* merged block then ends where the last merged block ended, nothing       *)
(* beyond R is absorbed.  When no block follows, the merged block is not   *)
(* kept: every merged header is off the list and the break is at the       *)
(* address of the leftmost.                                                *)
(***************************************************************************)
C16_MergeExact ==
  [][Released =>
       \A b \in {HeaderAt(last'.arg)} :
          IF mem[MergeRight(b)].next # NULL
          THEN /\ MergeLeft(b) \in DOMAIN mem'
               /\ mem'[MergeLeft(b)].is_free = FREE
               /\ mem'[MergeLeft(b)].data_size = MergedSize(b)
               /\ mem'[MergeLeft(b)].next = mem[MergeRight(b)].next
               /\ mem'[MergeLeft(b)].last = mem[MergeLeft(b)].last
               /\ DOMAIN mem' =
                    DOMAIN mem \ ({b, MergeRight(b)} \ {MergeLeft(b)})
          ELSE /\ DOMAIN mem' = DOMAIN mem \ {b, MergeLeft(b), MergeRight(b)}
               /\ brk' = MergeLeft(b)]_vars

\* a release merged on both sides: a FREE block begins below the released
\* header and ends beyond the released payload
C16_Witness ==
  /\ last.op = "free"
  /\ last.arg # NULL
  /\ \E b \in Blocks :
       /\ mem[b].is_free = FREE
       /\ LtU(b, HeaderAt(last.arg))
       /\ LtU(Add32(last.arg, last.cap), EndOf(b))
       /\ mem[b].data_size =
            Add32(last.cap, 2 * (SizeofBlock + MINIMUM_ALLOCATION))

(***************************************************************************)
(* C17  Between calls head is null exactly when tail is null, so the       *)
(* branch of add_to_list that reports a disagreement and returns null is   *)
(* never taken: an allocate call of a non-zero size that returns does not  *)
(* return null.                                                            *)
(***************************************************************************)
C17_HeadTailNullTogether ==
  ~crashed =>
     /\ (head = NULL) <=> (tail = NULL)
     /\ (last.op = "malloc" /\ last.arg # 0) => last.ret # NULL

\* the list was emptied by a release and the next allocate call grew the
\* heap from the empty list again
C17_Witness ==
  /\ last.op = "malloc"
  /\ last.again
  /\ head # NULL
  /\ head = tail
  /\ head = HeaderAt(last.ret)

(***************************************************************************)
(* C18  Bounded internal fragmentation: the data_size of a TAKEN block     *)
(* exceeds the normalized size of the request it serves by at most         *)
(* headerSize + 16, and by 0 when the block was appended at the tail or    *)
(* was split; it stays as it is for as long as the block is held.          *)
(***************************************************************************)
C18_BoundedFragmentation ==
  [][/\ (Allocated /\ last'.ret # NULL) =>
          LET b == HeaderAt(last'.ret)
              s == round_up_size(last'.arg)
          IN  /\ GeU(mem'[b].data_size, s)
              /\ LeU(Sub32(mem'[b].data_size, s),
                     SizeofBlock + MINIMUM_ALLOCATION)
              /\ (b \notin DOMAIN mem \/ DOMAIN mem' # DOMAIN mem) =>
                    mem'[b].data_size = s
     /\ \A p \in live \cap live' :
           mem'[HeaderAt(p)].data_size = mem[HeaderAt(p)].data_size]_vars

\* an allocate call took a FREE block without splitting it, leaving the
\* most that can be left: headerSize + 16 bytes more than asked for
C18_Witness ==
  /\ last.op = "malloc"
  /\ last.ret # NULL
  /\ last.arg # 0
  /\ mem[HeaderAt(last.ret)].data_size =
       Add32(round_up_size(last.arg), SizeofBlock + MINIMUM_ALLOCATION)

(***************************************************************************)
(* C20  Live allocations never overlap: the payload ranges                 *)
(* [p, p + data_size) of two distinct live pointers are disjoint, contain  *)
(* no block header of the list and lie below the break.                    *)
(***************************************************************************)
C20_NoOverlap ==
  \A p \in live :
     /\ HeaderAt(p) \in DOMAIN mem
     /\ \A e \in {Add32(p, mem[HeaderAt(p)].data_size)} :
           /\ LeU(p, e)
           /\ LeU(e, brk)
           /\ \A h \in Blocks : Disjoint(p, e, h, get_data_pointer(h))
           /\ \A q \in live \ {p} :
                 Disjoint(p, e, q, Add32(q, mem[HeaderAt(q)].data_size))

\* an allocate call reused a released block that stands between two live
\* allocations
C20_Witness ==
  /\ last.op = "malloc"
  /\ last.again
  /\ mem[HeaderAt(last.ret)].last # NULL
  /\ mem[HeaderAt(last.ret)].next # NULL
  /\ get_data_pointer(mem[HeaderAt(last.ret)].last) \in live
  /\ get_data_pointer(mem[HeaderAt(last.ret)].next) \in live

(***************************************************************************)
(* C19  With mutual exclusion around every call, no two threads ever hold  *)
(* the same pointer and the list stays sound: contiguous, every held       *)
(* pointer on a TAKEN block of the list, payloads apart.  Without it, two  *)
(* my_malloc calls that interleave between find_free_block and the step    *)
(* after it reach a state where both threads were given the same pointer   *)
(* (the witness).                                                          *)
(***************************************************************************)
C19_SafeWhenExclusive ==
  lock # NoLock =>
     /\ ~DoubleGrant
     /\ live = UNION {thr[t].held : t \in Threads}
     /\ C12_Contiguous
     /\ C15_LivePointersHeld
     /\ C20_NoOverlap

\* no mutual exclusion: both threads found the same FREE block and both
\* were given its payload
C19_Witness ==
  /\ lock = NoLock
  /\ DoubleGrant
  /\ \A t \in Threads : thr[t].pc = "idle"

\* no mutual exclusion: the second of the two threads split the block the
\* first had already taken, and the list is no longer contiguous
C19_WitnessCorrupted ==
  /\ lock = NoLock
  /\ DoubleGrant
  /\ ~C12_Contiguous

(***************************************************************************)
(* C21  Frame of allocate and release: a call never changes the address,   *)
(* the is_free state or the data_size of a TAKEN block other than the one  *)
(* block it allocates or releases; every other TAKEN block is in the list  *)
(* after the call as it was before it (the headers in memory are always    *)
(* exactly the blocks of the list).                                        *)
(***************************************************************************)
C21_Frame ==
  /\ [](DOMAIN mem = Blocks)
  /\ [][\A a \in DOMAIN mem :
           (/\ mem[a].is_free = TAKEN
            /\ ~(Released /\ a = HeaderAt(last'.arg))) =>
              /\ a \in DOMAIN mem'
              /\ mem'[a].is_free = TAKEN
              /\ mem'[a].data_size = mem[a].data_size]_vars

\* a release merged the released block with the FREE block after it, with
\* a held block on each side of the merged block
C21_Witness ==
  /\ last.op = "free"
  /\ last.arg # NULL
  /\ HeaderAt(last.arg) \in Blocks
  /\ mem[HeaderAt(last.arg)].is_free = FREE
  /\ LtU(last.cap, mem[HeaderAt(last.arg)].data_size)
  /\ mem[HeaderAt(last.arg)].last # NULL
  /\ mem[HeaderAt(last.arg)].next # NULL
  /\ get_data_pointer(mem[HeaderAt(last.arg)].last) \in live
  /\ get_data_pointer(mem[HeaderAt(last.arg)].next) \in live

(***************************************************************************)
(* C22  List well-formedness: between calls the list is finite and         *)
(* acyclic (following next from head visits no block twice and ends at a   *)
(* null next), head.last is null, tail.next is null, and b.next.last = b   *)
(* for every block b with a successor, so the scan from head terminates.   *)
(***************************************************************************)
C22_WellFormed ==
  ~crashed =>
     /\ \A i \in 1 .. Len(List), j \in 1 .. Len(List) :
           List[i] = List[j] => i = j
     /\ \A b \in Blocks : mem[b].next # NULL => mem[b].next \in DOMAIN mem
     /\ head # NULL =>
           /\ head \in DOMAIN mem
           /\ mem[head].last = NULL
           /\ mem[List[Len(List)]].next = NULL
     /\ tail # NULL =>
           /\ tail \in DOMAIN mem
           /\ mem[tail].next = NULL
     /\ \A b \in Blocks :
           mem[b].next # NULL => mem[mem[b].next].last = b

\* a list of four blocks whose second was split off the first by the last
\* allocate call: add_block_after linked it between two blocks
C22_Witness ==
  /\ last.op = "malloc"
  /\ last.ret # NULL
  /\ Len(List) = 4
  /\ List[1] = HeaderAt(last.ret)
  /\ mem[List[2]].is_free = FREE
  /\ mem[List[1]].data_size = round_up_size(last.arg)
  /\ mem[List[3]].last = List[2]

=============================================================================
